---- MODULE Spec2Model ----
(***************************************************************************)
(* Docling FastAPI backend (python-backend/main.py): the /convert handler, *)
(* the lazily built global DocumentConverter, and clean_text_for_rag.      *)
(*                                                                         *)
(* One event loop runs the handler coroutines; every request hands its     *)
(* blocking conversion to a worker thread of its own ThreadPoolExecutor,   *)
(* so worker steps of different requests interleave freely.                *)
(*                                                                         *)
(* Text is a sequence of one-character strings.  A filename is a record    *)
(* [present, parts]: parts are its path components.  Uploaded bytes are    *)
(* tokens: request r uploads the token r, and 0 is a truncated file.       *)
(***************************************************************************)
EXTENDS Integers, Sequences, FiniteSets, TLC

\* ------------------------------------------------------------- bounds

\* Number of /convert requests the service receives.
NumReqs == 2

\* Longest clean_text_for_rag input, in fragments (marker texts) and in
\* characters (whitespace texts).
MaxFrags == 5

MaxWs == 6

Reqs == 1..NumReqs

VARIABLES
    req,                  \* per request: the handler's locals and position
    fs,                   \* the temp directory: path -> bytes, for existing files
    converter,            \* global converter (line 63)
    current_ocr_setting,  \* global current_ocr_setting (line 64)
    engines,              \* engines built so far: engines[e] is e's do_ocr
    text_in,              \* clean_text_for_rag: the text given
    text_out,             \* clean_text_for_rag applied once, then twice
    text_pc,
    health                \* a GET /health request: its position and response

vars == <<req, fs, converter, current_ocr_setting, engines, text_in, text_out, text_pc, health>>

svc_vars == <<req, fs, converter, current_ocr_setting, engines>>

text_vars == <<text_in, text_out, text_pc>>

\* ------------------------------------------------------ values

\* converter = None
None == 0

\* os.getpid(): one server process
Pid == 4242

NoPath == <<>>

NoDoc == [bytes |-> -1, walkable |-> FALSE]

NoBundle == [markdown |-> <<>>, rag_text |-> <<>>, debug_info |-> <<>>]

NoHealth == [pc |-> "none", status |-> 0, body |-> "", during |-> 0]

NoExc == [kind |-> "none", status |-> 0, detail |-> ""]

PyException(msg) == [kind |-> "Exception", status |-> 0, detail |-> msg]

HTTPException(status_code, detail) ==
    [kind |-> "HTTPException", status |-> status_code, detail |-> detail]

Filenames ==
    { [present |-> FALSE, parts |-> <<>>],
      [present |-> TRUE, parts |-> <<>>],
      [present |-> TRUE, parts |-> <<"a.pdf">>],
      [present |-> TRUE, parts |-> <<"up", "a.pdf">>],
      [present |-> TRUE, parts |-> <<"b.pdf">>] }

TableModes == {"markdown", "list"}

\* The bytes request r uploads.
Upload(r) == r

Truncated == 0

\* ------------------------------------------------- clean_text_for_rag

IsSpace(c) == c \in {" ", "\n"}

CommentOpen == <<"<", "!", "-", "-">>

CommentClose == <<"-", "-", ">">>

IsAt(s, i, pat) ==
    /\ i + Len(pat) - 1 <= Len(s)
    /\ SubSeq(s, i, i + Len(pat) - 1) = pat

\* First position at or after j where the close marker starts; 0 if none.
CloseFrom(s, j) ==
    LET hits == {k \in j..Len(s) : IsAt(s, k, CommentClose)}
    IN  IF hits = {} THEN 0 ELSE CHOOSE k \in hits : \A m \in hits : k <= m

RECURSIVE RemoveFrom(_, _)
RemoveFrom(s, i) ==
    IF i > Len(s) THEN <<>>
    ELSE IF IsAt(s, i, CommentOpen) /\ CloseFrom(s, i + Len(CommentOpen)) # 0
         THEN RemoveFrom(s, CloseFrom(s, i + Len(CommentOpen)) + Len(CommentClose))
         ELSE <<s[i]>> \o RemoveFrom(s, i + 1)

\* re.sub(r'<!--.*?-->', '', text, flags=re.DOTALL)
RemoveComments(s) == RemoveFrom(s, 1)

RECURSIVE SplitFrom(_, _, _)
SplitFrom(s, i, cur) ==
    IF i > Len(s) THEN (IF cur = <<>> THEN <<>> ELSE <<cur>>)
    ELSE IF s[i] = "\n"
         THEN <<cur>> \o SplitFrom(s, i + 1, <<>>)
         ELSE SplitFrom(s, i + 1, Append(cur, s[i]))

\* str.splitlines(): no last empty line after a final newline
SplitLines(s) == SplitFrom(s, 1, <<>>)

RECURSIVE RStrip(_)
RStrip(s) ==
    IF s # <<>> /\ IsSpace(s[Len(s)]) THEN RStrip(SubSeq(s, 1, Len(s) - 1)) ELSE s

RECURSIVE LStrip(_)
LStrip(s) ==
    IF s # <<>> /\ IsSpace(s[1]) THEN LStrip(Tail(s)) ELSE s

\* str.strip()
Strip(s) == LStrip(RStrip(s))

RECURSIVE JoinLines(_)
JoinLines(lines) ==
    IF lines = <<>> THEN <<>>
    ELSE IF Len(lines) = 1 THEN lines[1]
    ELSE lines[1] \o <<"\n">> \o JoinLines(Tail(lines))

\* '\n'.join(line.rstrip() for line in text.splitlines())
RStripLines(s) ==
    LET lines == SplitLines(s)
    IN  JoinLines([k \in 1..Len(lines) |-> RStrip(lines[k])])

\* Length of the run of newlines starting at i.
RECURSIVE RunLen(_, _)
RunLen(s, i) ==
    IF i <= Len(s) /\ s[i] = "\n" THEN 1 + RunLen(s, i + 1) ELSE 0

RECURSIVE CollapseFrom(_, _)
CollapseFrom(s, i) ==
    IF i > Len(s) THEN <<>>
    ELSE IF s[i] = "\n"
         THEN LET n == RunLen(s, i)
              IN  (IF n >= 3 THEN <<"\n", "\n">> ELSE SubSeq(s, i, i + n - 1))
                  \o CollapseFrom(s, i + n)
         ELSE <<s[i]>> \o CollapseFrom(s, i + 1)

\* A collapse step that leaves every run of newlines as it is.
CollapseBlankLines_KeepsRuns(s) == s

\* re.sub(r'\n{3,}', '\n\n', text)
CollapseBlankLines(s) == CollapseFrom(s, 1)

clean_text_for_rag(text) ==
    IF text = <<>> THEN <<>>
    ELSE Strip(CollapseBlankLines(RStripLines(RemoveComments(text))))

\* ------------------------------------------------- the engine (external)

\* The faithful rendering of the document the engine made from these bytes.
SampleTexts ==
    << <<"a", " ", "\n", "<", "!", "-", "-", "a", "-", "-", ">", "\n", "\n", "\n", "a", " ">>,
       <<"a", "\n", "a">> >>

export_to_markdown(doc) ==
    IF doc.bytes = Truncated THEN <<>>
    ELSE SampleTexts[((doc.bytes - 1) % Len(SampleTexts)) + 1]

\* flatten_tables_to_list: both branches return the standard rendering.
flatten_tables_to_list(doc) == export_to_markdown(doc)

\* ------------------------------------------------- handler helpers

\* A check for an absent filename only: an empty one passes.
FilenameMissing_NoneOnly(filename) == ~filename.present

\* `not file.filename`
FilenameMissing(filename) == ~filename.present \/ filename.parts = <<>>

\* Path(file.filename).name
PathName(filename) ==
    IF filename.parts = <<>> THEN "" ELSE filename.parts[Len(filename.parts)]

\* Path(temp_dir) / f"docling_upload_{os.getpid()}_{Path(file.filename).name}"
TempPath(filename) == <<"docling_upload", Pid, PathName(filename)>>

Exists(path) == path \in DOMAIN fs

\* open(path, 'wb') and write: the file is created or replaced.
WriteFile(path, bytes) ==
    [p \in (DOMAIN fs) \cup {path} |-> IF p = path THEN bytes ELSE fs[p]]

\* Path.unlink()
Unlink(path) == [p \in (DOMAIN fs) \ {path} |-> fs[p]]

\* A cache that is rebuilt only when empty, whatever ocr_enabled is asked.
NeedsInit_IgnoresOcr(ocr_enabled) == converter = None

\* get_converter line 81
NeedsInit(ocr_enabled) == converter = None \/ current_ocr_setting # ocr_enabled

\* An except clause that clears the global before re-raising.
ConverterAfterFailure_Clears == None

\* get_converter lines 103-107: the except clause re-raises, the globals are
\* left as they are.
ConverterAfterFailure == converter

\* A shaper that cleans rag_text whether or not rag_clean is set.
ShapeOutput_CleansAlways(doc, clean, tbl_mode, debug) ==
    [markdown |-> export_to_markdown(doc),
     rag_text |-> clean_text_for_rag(export_to_markdown(doc)),
     debug_info |-> <<>>]

\* A shaper whose list mode renders nothing when the document cannot be walked.
ShapeOutput_ListDropsText(doc, clean, tbl_mode, debug) ==
    LET final_markdown == IF tbl_mode = "list" /\ ~doc.walkable THEN <<>>
                          ELSE export_to_markdown(doc)
    IN  [markdown |-> final_markdown,
         rag_text |-> IF clean THEN clean_text_for_rag(final_markdown)
                      ELSE final_markdown,
         debug_info |-> <<>>]

\* run_conversion lines 218-268, after doc_converter.convert returned
ShapeOutput(doc, clean, tbl_mode, debug) ==
    LET markdown_content == export_to_markdown(doc)
        final_markdown == markdown_content
        rag_content == IF clean THEN clean_text_for_rag(final_markdown)
                       ELSE final_markdown
        debug_info == <<>>
    IN  [markdown |-> final_markdown, rag_text |-> rag_content,
         debug_info |-> debug_info]

\* An inner handler that reports the failure as a client error.
InnerExcept_ClientError(e) == HTTPException(400, e.detail)

\* lines 286-290
InnerExcept(e) == HTTPException(500, e.detail)

\* A worker that calls the engine again when the conversion raised.
OnConvertError_Retries == "convert"

\* Lines 216 and 286: an exception of doc_converter.convert leaves
\* run_conversion and is raised by the await; the call is not repeated.
OnConvertError == "resume"

\* A finally clause whose unlink error replaces what the handler was about
\* to return or raise.
UnlinkExcept_Raises(e) == PyException("unlink failed")

\* Lines 295-298: `except Exception: pass` around unlink(); what the handler
\* was about to return or raise (e) goes on unchanged.
UnlinkExcept(e) == e

\* lines 300-305
OuterExcept(e) ==
    IF e.kind = "HTTPException" THEN e ELSE HTTPException(500, e.detail)

\* ------------------------------------------------- state

\* A request's record holds the handler's and the worker's live locals and
\* what the properties need of its history.  ocr_enabled and doc_converter
\* (the engine get_converter returned) are kept to the end; the other locals
\* are dropped when the handler returns.
IdleReq ==
    [pc |-> "idle",
     ocr_enabled |-> TRUE, rag_clean |-> FALSE,
     table_mode |-> "markdown", debug_mode |-> FALSE,
     temp_file_path |-> NoPath,
     doc_converter |-> None,
     document |-> NoDoc,
     result_data |-> NoBundle,
     raised |-> NoExc,
     status |-> 0, detail |-> "", body |-> NoBundle,
     \* history
     no_name |-> FALSE,      \* the filename was absent or empty
     staged |-> FALSE,       \* open() created this request's staged file
     unlinks |-> 0,          \* unlink() calls of this request
     left_behind |-> FALSE,  \* the staged path existed when the response went out
     touched |-> FALSE,      \* get_converter was entered
     constructed |-> "no",   \* DC(...) was invoked: "no", "ok", "failed"
     failed_at |-> "none",   \* "validate", "stage", "init", "convert"
     trace |-> <<>>]         \* the steps taken, in order

Init ==
    /\ req = [r \in Reqs |-> IdleReq]
    /\ fs = <<>>
    /\ converter = None
    /\ current_ocr_setting = TRUE
    /\ engines = <<>>
    /\ text_in = <<>>
    /\ text_out = <<>>
    /\ text_pc = "off"
    /\ health = NoHealth

InFlight(r) == req[r].pc \notin {"idle", "done"}

\* The event loop's thread is inside a handler's synchronous block: between
\* open() and the hand-off to the worker.  Worker threads still run.
LoopBusy == \E q \in Reqs : req[q].pc = "write"

\* The response leaves the handler: a JSONResponse(content=result_data) or the
\* raised HTTPException.  The handler's frame is gone afterwards.
Respond(q, e, files) ==
    [IdleReq EXCEPT
        !.pc = "done",
        !.status = IF e.kind = "none" THEN 200 ELSE e.status,
        !.detail = e.detail,
        !.body = IF e.kind = "none" THEN q.result_data ELSE NoBundle,
        !.ocr_enabled = q.ocr_enabled,
        !.doc_converter = q.doc_converter,
        !.no_name = q.no_name,
        !.staged = q.staged,
        !.unlinks = q.unlinks,
        !.left_behind = q.staged /\ q.temp_file_path \in DOMAIN files,
        !.touched = q.touched,
        !.constructed = q.constructed,
        !.failed_at = q.failed_at,
        !.trace = Append(q.trace, "response")]

\* ------------------------------------------------- convert_document

\* Lines 185-199: the request arrives, the filename is validated, the path is
\* computed; the handler then awaits file.read().  Requests are numbered in
\* the order they arrive.
Receive(r) ==
    /\ req[r].pc = "idle"
    /\ IF r = 1 THEN TRUE ELSE req[r - 1].pc # "idle"
    /\ ~LoopBusy
    /\ \E filename \in Filenames, ocr \in BOOLEAN :
         LET q == [req[r] EXCEPT
                      !.ocr_enabled = ocr,
                      !.no_name = ~filename.present \/ filename.parts = <<>>]
         IN  IF FilenameMissing(filename)
             THEN req' = [req EXCEPT ![r] =
                     Respond([q EXCEPT !.failed_at = "validate"],
                             OuterExcept(HTTPException(400, "No filename provided")),
                             fs)]
             ELSE req' = [req EXCEPT ![r] =
                     [q EXCEPT !.pc = "read",
                               !.temp_file_path = TempPath(filename)]]
    /\ UNCHANGED <<fs, converter, current_ocr_setting, engines, text_vars, health>>

\* Lines 199-201: file.read() returns and open(temp_file_path, 'wb') creates
\* or truncates the staged file, or raises.  These lines are outside the
\* inner try, so only the outer handler runs.
OpenStaged(r) ==
    /\ req[r].pc = "read"
    /\ ~LoopBusy
    /\ \/ /\ fs' = fs
          /\ req' = [req EXCEPT ![r] =
                Respond([@ EXCEPT !.failed_at = "stage",
                                  !.trace = Append(@, "stage")],
                        OuterExcept(PyException("open failed")), fs')]
       \/ /\ fs' = WriteFile(req[r].temp_file_path, Truncated)
          /\ req' = [req EXCEPT ![r] =
                [@ EXCEPT !.pc = "write", !.staged = TRUE,
                          !.trace = Append(@, "stage")]]
    /\ UNCHANGED <<converter, current_ocr_setting, engines, text_vars, health>>

\* Lines 202-203 and 271-282: the bytes are written and flushed and the
\* conversion is handed to the worker; or write() raises and the truncated
\* file stays.  The event loop runs nothing else since open().
WriteStaged(r) ==
    /\ req[r].pc = "write"
    /\ \/ /\ fs' = fs
          /\ req' = [req EXCEPT ![r] =
                Respond([@ EXCEPT !.failed_at = "stage"],
                        OuterExcept(PyException("write failed")), fs')]
       \/ /\ fs' = WriteFile(req[r].temp_file_path, Upload(r))
          /\ req' = [req EXCEPT ![r] = [@ EXCEPT !.pc = "gc_check"]]
    /\ UNCHANGED <<converter, current_ocr_setting, engines, text_vars, health>>

\* ------------------------------------------------- get_converter (worker)

\* Line 81
GcCheck(r) ==
    /\ req[r].pc = "gc_check"
    /\ req' = [req EXCEPT ![r] =
          [@ EXCEPT !.touched = TRUE,
                    !.trace = Append(@, "acquire"),
                    !.pc = IF NeedsInit(req[r].ocr_enabled)
                           THEN "gc_construct" ELSE "gc_return"]]
    /\ UNCHANGED <<fs, converter, current_ocr_setting, engines, text_vars, health>>

\* Lines 83-100 and 103-107: the imports and DC(...) either raise, or the new
\* engine is stored in the global.
GcConstruct(r) ==
    /\ req[r].pc = "gc_construct"
    /\ \/ /\ engines' = Append(engines, req[r].ocr_enabled)
          /\ converter' = Len(engines) + 1
          /\ req' = [req EXCEPT ![r] =
                [@ EXCEPT !.pc = "gc_setocr", !.constructed = "ok"]]
       \/ /\ engines' = engines
          /\ converter' = ConverterAfterFailure
          /\ req' = [req EXCEPT ![r] =
                [@ EXCEPT !.pc = "resume", !.constructed = "failed",
                          !.failed_at = "init",
                          !.raised = PyException("init failed")]]
    /\ UNCHANGED <<fs, current_ocr_setting, text_vars, health>>

\* Line 101
GcSetOcr(r) ==
    /\ req[r].pc = "gc_setocr"
    /\ current_ocr_setting' = req[r].ocr_enabled
    /\ req' = [req EXCEPT ![r] = [@ EXCEPT !.pc = "gc_return"]]
    /\ UNCHANGED <<fs, converter, engines, text_vars, health>>

\* Line 108: return converter reads the global again.
GcReturn(r) ==
    /\ req[r].pc = "gc_return"
    /\ req' = [req EXCEPT ![r] =
          [@ EXCEPT !.pc = "convert", !.doc_converter = converter]]
    /\ UNCHANGED <<fs, converter, current_ocr_setting, engines, text_vars, health>>

\* ------------------------------------------------- run_conversion (worker)

\* Lines 216-268: the engine reads the staged path as it is now and either
\* raises or returns a document, which is shaped into the bundle.  The form
\* fields rag_clean, table_mode and debug_mode are first read here, and are
\* drawn here.
Convert(r) ==
    /\ req[r].pc = "convert"
    /\ \/ /\ ~Exists(req[r].temp_file_path)
          /\ req' = [req EXCEPT ![r] =
                [@ EXCEPT !.pc = OnConvertError, !.failed_at = "convert",
                          !.trace = Append(@, "convert"),
                          !.raised = PyException("file not found")]]
       \/ /\ Exists(req[r].temp_file_path)
          /\ req' = [req EXCEPT ![r] =
                [@ EXCEPT !.pc = OnConvertError, !.failed_at = "convert",
                          !.trace = Append(@, "convert"),
                          !.raised = PyException("conversion failed")]]
       \/ /\ Exists(req[r].temp_file_path)
          /\ \E clean \in BOOLEAN, tbl \in TableModes, debug \in BOOLEAN,
                walkable \in BOOLEAN :
               LET doc == [bytes |-> fs[req[r].temp_file_path],
                           walkable |-> walkable]
               IN  req' = [req EXCEPT ![r] =
                      [@ EXCEPT !.pc = "resume", !.document = doc,
                                !.rag_clean = clean, !.table_mode = tbl,
                                !.debug_mode = debug,
                                !.trace = @ \o <<"convert", "shape">>,
                                !.result_data =
                                    ShapeOutput(doc, clean, tbl, debug)]]
    /\ UNCHANGED <<fs, converter, current_ocr_setting, engines, text_vars, health>>

\* ------------------------------------------------- back on the event loop

\* Lines 284-305: the await returns or raises; the inner except wraps the
\* error, the finally clause removes the staged file if it exists (an unlink
\* error is swallowed), and the response goes out.
Resume(r) ==
    /\ req[r].pc = "resume"
    /\ ~LoopBusy
    /\ LET e == IF req[r].raised.kind = "none" THEN NoExc
                ELSE InnerExcept(req[r].raised)
           Leave(x) == IF x.kind = "none" THEN NoExc ELSE OuterExcept(x)
       IN  \/ /\ ~Exists(req[r].temp_file_path)
              /\ fs' = fs
              /\ req' = [req EXCEPT ![r] =
                    Respond([@ EXCEPT !.trace = Append(@, "release")],
                            Leave(e), fs')]
           \/ /\ Exists(req[r].temp_file_path)
              /\ fs' = Unlink(req[r].temp_file_path)
              /\ req' = [req EXCEPT ![r] =
                    Respond([@ EXCEPT !.unlinks = @ + 1,
                                      !.trace = Append(@, "release")],
                            Leave(e), fs')]
           \/ /\ Exists(req[r].temp_file_path)
              /\ fs' = fs
              /\ req' = [req EXCEPT ![r] =
                    Respond([@ EXCEPT !.unlinks = @ + 1,
                                      !.trace = Append(@, "release")],
                            Leave(UnlinkExcept(e)), fs')]
    /\ UNCHANGED <<converter, current_ocr_setting, engines, text_vars, health>>

Next ==
    \E r \in Reqs :
        \/ Receive(r)
        \/ OpenStaged(r)
        \/ WriteStaged(r)
        \/ GcCheck(r)
        \/ GcConstruct(r)
        \/ GcSetOcr(r)
        \/ GcReturn(r)
        \/ Convert(r)
        \/ Resume(r)

Spec == Init /\ [][Next]_vars

\* Requests that do not overlap: one arrives only when none is in flight.
ReceiveSeq(r) ==
    /\ \A q \in Reqs : ~InFlight(q)
    /\ Receive(r)

NextSeq ==
    \E r \in Reqs :
        \/ ReceiveSeq(r)
        \/ OpenStaged(r)
        \/ WriteStaged(r)
        \/ GcCheck(r)
        \/ GcConstruct(r)
        \/ GcSetOcr(r)
        \/ GcReturn(r)
        \/ Convert(r)
        \/ Resume(r)

SpecSeq == Init /\ [][NextSeq]_vars

\* ------------------------------------------------- health_check

\* Request r's conversion is running, or waiting to run, on its worker thread.
OnWorker(r) ==
    req[r].pc \in {"gc_check", "gc_construct", "gc_setocr", "gc_return", "convert"}

\* A health check that answers 503 until an engine is loaded.
HealthResponse_NeedsEngine ==
    IF converter = None THEN [status |-> 503, body |-> "loading"]
    ELSE [status |-> 200, body |-> "ok"]

\* Lines 163-164: return {"status": "ok"}
HealthResponse == [status |-> 200, body |-> "ok"]

\* A GET /health request reaches the server, at any moment.
HealthArrive ==
    /\ health.pc = "none"
    /\ health' = [health EXCEPT !.pc = "pending"]
    /\ UNCHANGED <<svc_vars, text_vars>>

\* Lines 161-164: the event loop runs the handler as soon as its thread is
\* not inside another handler's synchronous block.
health_check ==
    /\ health.pc = "pending"
    /\ ~LoopBusy
    /\ health' = [pc |-> "answered",
                  status |-> HealthResponse.status,
                  body |-> HealthResponse.body,
                  during |-> Cardinality({q \in Reqs : OnWorker(q)})]
    /\ UNCHANGED <<svc_vars, text_vars>>

NextHealth ==
    \/ Next
    \/ HealthArrive
    \/ health_check

SpecHealth == Init /\ [][NextHealth]_vars

\* The event loop's thread is scheduled fairly; nothing is assumed of the
\* worker threads, which may take as long as they like.
SpecHealthFair ==
    /\ SpecHealth
    /\ WF_vars(health_check)
    /\ WF_vars(\E r \in Reqs : WriteStaged(r))

\* ------------------------------------------------- clean_text_for_rag alone

RECURSIVE Flatten(_)
Flatten(parts) ==
    IF parts = <<>> THEN <<>> ELSE Head(parts) \o Flatten(Tail(parts))

Fragments ==
    { <<"<", "!">>, <<"-", "-">>, CommentOpen, CommentClose, <<"a">>, <<"\n">> }

\* Texts built from comment markers and their pieces.
MarkerTexts ==
    { Flatten(parts) : parts \in UNION { [1..n -> Fragments] : n \in 0..MaxFrags } }

\* Texts of blanks, newlines and a letter.
BlankTexts == UNION { [1..n -> {" ", "\n", "a"}] : n \in 0..MaxWs }

InitClean ==
    /\ req = [r \in Reqs |-> IdleReq]
    /\ fs = <<>>
    /\ converter = None
    /\ current_ocr_setting = TRUE
    /\ engines = <<>>
    /\ text_in \in MarkerTexts \cup BlankTexts
    /\ text_out = <<>>
    /\ text_pc = "start"
    /\ health = NoHealth

CleanOnce ==
    /\ text_pc = "start"
    /\ text_out' = <<clean_text_for_rag(text_in)>>
    /\ text_pc' = "once"
    /\ UNCHANGED <<svc_vars, text_in, health>>

CleanTwice ==
    /\ text_pc = "once"
    /\ text_out' = Append(text_out, clean_text_for_rag(text_out[1]))
    /\ text_pc' = "twice"
    /\ UNCHANGED <<svc_vars, text_in, health>>

NextClean == CleanOnce \/ CleanTwice

SpecClean == InitClean /\ [][NextClean]_vars

\* ------------------------------------------------- properties

Done(r) == req[r].pc = "done"

\* get_converter returned an engine to request r.
ObtainedEngine(r) ==
    req[r].pc \in {"convert", "resume", "done"} /\ req[r].doc_converter # None

\* Request r is inside get_converter.
InGetConverter(r) ==
    req[r].pc \in {"gc_check", "gc_construct", "gc_setocr", "gc_return"}

\* The worker returned a bundle that the handler has not yet sent.
Shaped(r) == req[r].pc = "resume" /\ req[r].raised.kind = "none"

\* C1: every request that created a staged file has removed it by the time
\* its response goes out, by exactly one unlink; none leaves its file behind.
C1_StagedFileReleased ==
    \A r \in Reqs :
        (Done(r) /\ req[r].staged) =>
            (~req[r].left_behind /\ req[r].unlinks = 1)

\* C2: two requests in flight at the same time, each with its file staged,
\* have different staged paths.
C2_DistinctStagedPaths ==
    \A r, q \in Reqs :
        (r # q /\ InFlight(r) /\ InFlight(q) /\ req[r].staged /\ req[q].staged)
            => req[r].temp_file_path # req[q].temp_file_path

\* C3 as stated: of two requests in a row that ask for the same ocr_enabled,
\* the second never invokes construction.
C3_SecondNeverConstructs ==
    \A r \in Reqs :
        (r + 1 \in Reqs /\ req[r].touched /\ req[r + 1].touched
         /\ req[r + 1].pc # "gc_check"
         /\ req[r].ocr_enabled = req[r + 1].ocr_enabled)
            => req[r + 1].constructed = "no"

\* The last request before r that got an engine from get_converter; 0 if none.
PrevObtainer(r) ==
    LET earlier == {q \in Reqs : q < r /\ ObtainedEngine(q)}
    IN  IF earlier = {} THEN 0
        ELSE CHOOSE q \in earlier : \A m \in earlier : m <= q

\* C3 (amended): among requests that do not overlap, get_converter invokes
\* construction exactly when the cache is empty or the cached engine was built
\* with another ocr_enabled; otherwise it returns the engine the last request
\* that got one was given; and a request that follows one that got an engine
\* for the same ocr_enabled constructs nothing and is given that same engine.
C3_ConstructsOnMismatchOnly ==
    \A r \in Reqs :
        /\ (req[r].pc \in {"gc_construct", "gc_return"} /\ req[r].constructed = "no")
              => ((req[r].pc = "gc_construct")
                    <=> (converter = None \/ engines[converter] # req[r].ocr_enabled))
        /\ (ObtainedEngine(r) /\ req[r].constructed = "no")
              => /\ PrevObtainer(r) # 0
                 /\ req[r].doc_converter = req[PrevObtainer(r)].doc_converter
        /\ (ObtainedEngine(r) /\ req[r].constructed = "ok" /\ PrevObtainer(r) # 0)
              => req[r].doc_converter # req[PrevObtainer(r)].doc_converter
        /\ (r + 1 \in Reqs /\ ObtainedEngine(r) /\ req[r + 1].touched
            /\ req[r + 1].pc # "gc_check"
            /\ req[r].ocr_enabled = req[r + 1].ocr_enabled)
              => /\ req[r + 1].constructed = "no"
                 /\ ObtainedEngine(r + 1) => req[r + 1].doc_converter = req[r].doc_converter

C3_Witness ==
    \E r \in Reqs :
        /\ r + 1 \in Reqs
        /\ req[r].constructed = "ok" /\ ObtainedEngine(r)
        /\ req[r + 1].ocr_enabled = req[r].ocr_enabled
        /\ ObtainedEngine(r + 1) /\ req[r + 1].constructed = "no"

\* C4: of requests that are inside get_converter at the same time with the
\* same ocr_enabled, at most one invokes construction.
C4_ConcurrentCallsConstructOnce ==
    \A r, q \in Reqs :
        (r # q /\ InGetConverter(r) /\ InGetConverter(q)
         /\ req[r].ocr_enabled = req[q].ocr_enabled)
            => ~(req[r].constructed = "ok" /\ req[q].constructed = "ok")

\* C5: a request whose filename is absent or empty is answered 4xx at once,
\* with no staged path, no staged file, no unlink and no call of
\* get_converter.
C5_NoFilenameIsClientError ==
    \A r \in Reqs :
        (req[r].no_name /\ req[r].pc # "idle") =>
            /\ Done(r)
            /\ req[r].status \in 400..499
            /\ req[r].temp_file_path = NoPath
            /\ ~req[r].staged
            /\ req[r].unlinks = 0
            /\ ~req[r].touched
            /\ req[r].constructed = "no"

C5_Witness ==
    \E r \in Reqs :
        req[r].no_name /\ Done(r) /\ req[r].status = 400 /\ converter # None

\* The step in which request r's engine construction fails.
ConstructionFails(r) ==
    req[r].pc = "gc_construct" /\ req'[r].constructed = "failed"

\* C6 as stated: when engine construction fails, the cache holds no engine
\* afterwards.
C6_FailureEmptiesCache ==
    [][\A r \in Reqs : ConstructionFails(r) => converter' = None]_vars

\* C6 (amended): when engine construction fails, the cache is left as it was:
\* the slot (empty, or the engine cached before), the recorded setting and the
\* set of built engines are unchanged, so the failure itself is never cached.
C6_FailureLeavesCache ==
    [][\A r \in Reqs :
          ConstructionFails(r) =>
              /\ converter' = converter
              /\ current_ocr_setting' = current_ocr_setting
              /\ engines' = engines]_vars

C6_Witness ==
    \E r \in Reqs : req[r].constructed = "failed" /\ converter # None

\* C7: a finished request has one outcome, fixed by where it failed: 400 for
\* a missing filename; 500 with the failure's message for a staging,
\* construction or conversion failure; 200 with a bundle otherwise.
C7_OutcomeByFailurePoint ==
    \A r \in Reqs :
        Done(r) =>
            /\ req[r].no_name <=> req[r].failed_at = "validate"
            /\ req[r].failed_at = "validate" =>
                  /\ req[r].status = 400
                  /\ req[r].detail = "No filename provided"
            /\ req[r].failed_at = "stage" =>
                  /\ req[r].status = 500
                  /\ req[r].detail \in {"open failed", "write failed"}
            /\ req[r].failed_at = "init" =>
                  /\ req[r].status = 500
                  /\ req[r].detail = "init failed"
            /\ req[r].failed_at = "convert" =>
                  /\ req[r].status = 500
                  /\ req[r].detail \in {"file not found", "conversion failed"}
            /\ req[r].failed_at = "none" =>
                  /\ req[r].status = 200
                  /\ req[r].detail = ""
            /\ req[r].status # 200 => req[r].body = NoBundle

C7_Witness ==
    \E r, q \in Reqs :
        /\ Done(r) /\ req[r].failed_at = "convert" /\ req[r].status = 500
        /\ Done(q) /\ req[q].failed_at = "none" /\ req[q].status = 200

\* C8: in the bundle of a successful conversion, markdown is the engine's
\* rendering of the document, rag_text is markdown itself or, with rag_clean,
\* clean_text_for_rag of it, and debug_info is empty without debug_mode; the
\* response body is that bundle.
C8_BundleFollowsOptions ==
    /\ [](\A r \in Reqs :
            Shaped(r) =>
                /\ req[r].result_data.markdown = export_to_markdown(req[r].document)
                /\ req[r].result_data.rag_text =
                      IF req[r].rag_clean
                      THEN clean_text_for_rag(req[r].result_data.markdown)
                      ELSE req[r].result_data.markdown
                /\ ~req[r].debug_mode => req[r].result_data.debug_info = <<>>)
    /\ [][\A r \in Reqs :
            (Shaped(r) /\ req'[r].pc = "done") =>
                req'[r].body = req[r].result_data]_vars

C8_Witness ==
    \E r \in Reqs :
        /\ Shaped(r) /\ req[r].rag_clean
        /\ req[r].result_data.rag_text # req[r].result_data.markdown
        /\ req[r].result_data.markdown # <<>>

\* C9: once the engine has returned a document, table_mode and debug_mode
\* change nothing: the bundle is the one table_mode=markdown, debug_mode=false
\* gives, its markdown is the standard rendering (what flatten_tables_to_list
\* returns), and the request is answered 200.
C9_PostProcessingNeverFails ==
    /\ [](\A r \in Reqs :
            (req[r].pc = "resume" /\ req[r].document # NoDoc) =>
                /\ req[r].raised.kind = "none"
                /\ req[r].result_data =
                      ShapeOutput(req[r].document, req[r].rag_clean, "markdown", FALSE)
                /\ req[r].result_data.markdown = flatten_tables_to_list(req[r].document))
    /\ [][\A r \in Reqs :
            (req[r].pc = "resume" /\ req[r].document # NoDoc /\ req'[r].pc = "done")
                => req'[r].status = 200]_vars

C9_Witness ==
    \E r \in Reqs :
        /\ req[r].pc = "resume" /\ req[r].document # NoDoc
        /\ req[r].table_mode = "list" /\ req[r].debug_mode
        /\ ~req[r].document.walkable
        /\ req[r].result_data.markdown # <<>>

\* C10: clean_text_for_rag maps the empty text to the empty text, and
\* applying it twice gives what applying it once gives.
C10_CleanIsIdempotent ==
    /\ (text_pc \in {"once", "twice"} /\ text_in = <<>>) => text_out[1] = <<>>
    /\ text_pc = "twice" => text_out[2] = text_out[1]

\* The text holds a comment span: '<!--' followed later by '-->'.
HasCommentSpan(s) ==
    \E i \in 1..Len(s) :
        IsAt(s, i, CommentOpen) /\ CloseFrom(s, i + Len(CommentOpen)) # 0

\* C11: when the text given to clean_text_for_rag holds a comment span, the
\* cleaned text holds none.
C11_NoCommentSpanRemains ==
    (text_pc \in {"once", "twice"} /\ HasCommentSpan(text_in))
        => ~HasCommentSpan(text_out[1])

\* Some line of the text (lines end at a newline or at the end) ends with
\* whitespace.
LineEndsWithSpace(s) ==
    \E i \in 1..Len(s) :
        /\ s[i] = " "
        /\ (i = Len(s) \/ s[i + 1] = "\n")

HasLongNewlineRun(s) == \E i \in 1..Len(s) : RunLen(s, i) >= 3

HasOuterSpace(s) == s # <<>> /\ (IsSpace(s[1]) \/ IsSpace(s[Len(s)]))

\* C12: in the text clean_text_for_rag returns, no line ends with whitespace,
\* there is no run of three or more newlines, and the text neither starts nor
\* ends with whitespace.
C12_CleanedTextIsTidy ==
    text_pc \in {"once", "twice"} =>
        /\ ~LineEndsWithSpace(text_out[1])
        /\ ~HasLongNewlineRun(text_out[1])
        /\ ~HasOuterSpace(text_out[1])

C12_Witness ==
    /\ text_pc = "once"
    /\ LineEndsWithSpace(text_in)
    /\ HasLongNewlineRun(text_in)
    /\ HasOuterSpace(text_in)
    /\ Len(text_out[1]) >= 3

\* C13: a GET /health request never waits for a worker.  Whenever one is
\* pending, the event loop can answer it at once, or is inside a handler's
\* synchronous block that it can leave by its own step; so the request is
\* answered even if no worker ever makes another step.  The answer is 200
\* "ok" whatever the engine cache holds, and answering changes neither the
\* cache nor any conversion request.
C13_HealthAlwaysAnswered ==
    /\ [](health.pc = "pending" =>
             \/ ENABLED health_check
             \/ (LoopBusy /\ ENABLED (\E r \in Reqs : WriteStaged(r))))
    /\ [](health.pc = "answered" => (health.status = 200 /\ health.body = "ok"))
    /\ [][health' # health => UNCHANGED svc_vars]_vars
    /\ (health.pc = "pending") ~> (health.pc = "answered")

C13_Witness ==
    /\ health.pc = "answered"
    /\ health.during >= 2
    /\ converter = None
    /\ \A q \in {1, 2} : OnWorker(q)

\* The steps of a request, in the order the claim gives them.
StepOrder == <<"stage", "acquire", "convert", "shape", "release", "response">>

Rank(step) == CHOOSE i \in 1..Len(StepOrder) : StepOrder[i] = step

Took(r, step) == \E i \in 1..Len(req[r].trace) : req[r].trace[i] = step

\* C14: the steps a request has taken are in the order stage, acquire engine,
\* convert, shape, release, response, each at most once; acquire, convert and
\* shape each come directly after the step before them, and none is taken
\* after a step that failed; the response is the last step, after the release.
C14_StepsInStrictOrder ==
    \A r \in Reqs :
        LET t == req[r].trace
        IN  /\ \A i, j \in 1..Len(t) : i < j => Rank(t[i]) < Rank(t[j])
            /\ \A i \in 1..Len(t) :
                  t[i] \in {"acquire", "convert", "shape"} =>
                      (i > 1 /\ Rank(t[i - 1]) = Rank(t[i]) - 1)
            /\ req[r].failed_at = "validate" => ~Took(r, "stage")
            /\ req[r].failed_at = "stage" => ~Took(r, "acquire")
            /\ req[r].failed_at = "init" => ~Took(r, "convert")
            /\ req[r].failed_at = "convert" => ~Took(r, "shape")
            /\ Took(r, "response") <=> Done(r)
            /\ (Done(r) /\ req[r].status = 200) => t = StepOrder

C14_Witness ==
    \E r, q \in Reqs :
        /\ Done(r) /\ req[r].trace = StepOrder
        /\ Done(q) /\ req[q].trace = <<"stage", "acquire", "convert", "release", "response">>

\* The event loop runs a step of request q's handler.
LoopStep(q) ==
    req[q].pc \in {"idle", "read", "write", "resume"} /\ req'[q] # req[q]

\* C15: while a request is between its validation and the completion of its
\* staging, the event loop runs no step of another request; and the step that
\* resumes a request after its worker has finished releases the staged file
\* and sends the response with no step of another request in between.
C15_OnlyHandOffSuspends ==
    [][\A r, q \in Reqs :
          (r # q /\ LoopStep(q)) =>
              /\ req[r].pc \notin {"read", "write"}
              /\ (req[q].pc = "resume" => req'[q].pc = "done")]_vars

\* Request r holds an engine: get_converter returned it and the conversion
\* call has not returned yet.
HoldsEngine(r) == req[r].pc = "convert" /\ req[r].doc_converter # None

\* C16: no request holds, or converts with, an engine other than the one in
\* the cache slot.
C16_OneEngineLive ==
    \A r \in Reqs : HoldsEngine(r) => req[r].doc_converter = converter

\* C17: the engine get_converter(ocr_enabled=v) returned to a request, with
\* which its conversion runs, was constructed with ocr_enabled = v.
C17_EngineMatchesRequest ==
    \A r \in Reqs :
        ObtainedEngine(r) => engines[req[r].doc_converter] = req[r].ocr_enabled

\* C18: whenever the cache slot holds an engine, current_ocr_setting is the
\* ocr_enabled that engine was constructed with.
C18_SettingMatchesEngine ==
    converter # None => current_ocr_setting = engines[converter]

\* C19: from the end of a request's staging until its conversion call
\* returns, the staged file exists and holds the bytes of its own upload.
C19_StagedFileIsOwn ==
    \A r \in Reqs :
        OnWorker(r) =>
            /\ Exists(req[r].temp_file_path)
            /\ fs[req[r].temp_file_path] = Upload(r)

\* What the handler answers when its worker has finished, the release left
\* aside: 200 with the bundle, or 500 with the worker's error message.
OutcomeBeforeRelease(q) ==
    IF q.raised.kind = "none"
    THEN [status |-> 200, detail |-> "", body |-> q.result_data]
    ELSE [status |-> 500, detail |-> q.raised.detail, body |-> NoBundle]

\* C20: the response of a request whose worker has finished is fixed before
\* the release: the status, detail and body are the same whether the staged
\* file was removed, was already absent, or could not be removed.
C20_ReleaseNeverEscalates ==
    [][\A r \in Reqs :
          (req[r].pc = "resume" /\ req'[r].pc = "done") =>
              [status |-> req'[r].status, detail |-> req'[r].detail,
               body |-> req'[r].body] = OutcomeBeforeRelease(req[r])]_vars

\* Two finished requests whose unlink failed: one answered 200 with its
\* bundle, one answered 500 with the conversion's error.
C20_Witness ==
    \E r, q \in Reqs :
        /\ Done(r) /\ req[r].unlinks = 1 /\ req[r].left_behind
        /\ req[r].status = 200 /\ req[r].body.markdown # <<>>
        /\ Done(q) /\ req[q].unlinks = 1 /\ req[q].left_behind
        /\ req[q].status = 500 /\ req[q].detail = "conversion failed"

====
